---- MODULE Spec2Model ----
(***************************************************************************)
(* clickHearts.js: the harvest loop of clickAllHearts.                     *)
(*                                                                         *)
(* The script is one async function (the main routine), the observer       *)
(* callbacks it starts, and the timers they sleep on.  JavaScript runs     *)
(* each of them to its next await on a timer, so one action of this model  *)
(* is one such synchronous run.  The host page (items, scroll geometry,    *)
(* content loads, click handlers) is the environment.                      *)
(*                                                                         *)
(* Lines 139-242 of the file carry backslashes before the quotes of some   *)
(* string literals and after some closing braces, as left by a JSON        *)
(* encoding of the text.  The model reads the script those lines encode.   *)
(***************************************************************************)
EXTENDS Integers, FiniteSets, Sequences

\* ------------------------------------------------------------ bounds
NItems == 2          \* heart icons the page can ever hold
MaxNotifications == 2 \* qualifying mutation batches the page hands the observer

\* ------------------------------------------------------------ program constants
maxScrollsWithoutNewHearts == 4
maxAggressiveScrollAttemptsAtBottom == 3
ScrollJitter == 5

\* The page's geometry, in multiples of the jitter buffer.
ViewHeight == 2 * ScrollJitter
PageStep == 4 * ScrollJitter

Items == 1..NItems
Callbacks == 1..MaxNotifications

VARIABLES
    pc,                       \* where the main routine stands
    scrollsWithoutNewHearts,
    totalHeartsClicked,
    processedHeartsInCycle,   \* currentScrollOperation.processedHeartsInCycle
    resolveSet,               \* currentScrollOperation.resolve is not null
    observing,                \* the observer is connected
    timerPending,             \* the timer named by mutationTimeoutId has not fired or been cleared
    staleTimers,              \* pending wait timers of earlier waits
    mainPass,                 \* the main routine's processVisibleHearts call
    cb,                       \* the observer callbacks, one per notification
    aggressiveScrollAttempts,
    actualScrollHappenedInAggressiveLoop,
    scrollTop, scrollHeight,  \* the scroll element
    status, filled,           \* the items: in the DOM and visible or not; class filled
    notified,                 \* notifications handed over
    clicks,                   \* per item, the successful clicks so far
    badClick,                 \* click() was called on an item that was invisible or filled
    cycles,                   \* growth-and-wait cycles started; kept only while the page is static
    returned,                 \* the total clickAllHearts reported, -1 before it returns
    staticPage,               \* the page has not changed since the script started
    cycle,                    \* "before", "in" or "after" the first growth and wait
    outliving,                \* the callbacks in progress that were started in a wait that has ended
    scrollCommands,           \* the scroll commands issued by the growth phase that is running
    clickSinceReset,          \* a heart was clicked and the counter has not been reset since
    installer                 \* install.ps1: the installer script's state

clickHeartsVars == <<pc, scrollsWithoutNewHearts, totalHeartsClicked,
                     processedHeartsInCycle, resolveSet, observing, timerPending,
                     staleTimers, mainPass, cb, aggressiveScrollAttempts,
                     actualScrollHappenedInAggressiveLoop, scrollTop, scrollHeight,
                     status, filled, notified, clicks, badClick, cycles, returned,
                     staticPage, cycle, outliving, scrollCommands, clickSinceReset>>

vars == <<clickHeartsVars, installer>>

progVars == <<scrollsWithoutNewHearts, processedHeartsInCycle, resolveSet, observing,
              timerPending, staleTimers>>
scrollVars == <<aggressiveScrollAttempts, actualScrollHappenedInAggressiveLoop,
                scrollCommands, scrollTop, scrollHeight>>
pageVars == <<status, notified>>

Min(S) == CHOOSE x \in S : \A y \in S : x <= y

IdlePass == [ph |-> "idle", rest |-> {}, n |-> 0]

\* The main routine has come to a scan inside its loop and has not yet made the
\* call: it makes it in the same run.
ScanDue == pc \in {"bottomScan", "postWait"} /\ mainPass.ph = "idle"

\* A pass has returned and the continuation of its caller, a microtask, has not run
\* yet, or the main routine is about to call a scan.  No timer and no task of the
\* page runs before that.
ContinuationPending ==
    \/ mainPass.ph = "ret"
    \/ \E k \in Callbacks : cb[k].ph = "ret"
    \/ ScanDue

\* ------------------------------------------------------------ processVisibleHearts

\* document.querySelectorAll('i.ud.ud-heart:not(.filled)'): a static list.
UnfilledHearts == {i \in Items : status[i] # "absent" /\ ~filled[i]}

\* The skip test of the loop body.
SkipsNoVisibility(i) == filled[i]
SkipsNoFilledCheck(i) == status[i] # "visible"
Skips(i) == status[i] # "visible" \/ filled[i]

\* What the catch clause does with a click that threw: the loop goes on.
PropagateClickError(r) == [r EXCEPT !.err = TRUE, !.rest = {}]
CatchClickError(r) == r

\* What click() does to an item is the page's choice, click by click: it marks the
\* item filled, or it throws.
Outcomes == {"fill", "throw"}

\* One synchronous run of the for loop over the hearts still to visit, in document
\* order: up to the first click that succeeds (the run then sleeps
\* delayBetweenClicks) or to the end of the list.  out[i] is what click() does to i.
\*   rest: the hearts left to visit; hit: the heart clicked, 0 when the list ended;
\*   called: the hearts click() was called on; err: an exception left the loop.
RECURSIVE NextHeart(_, _, _)
NextHeart(rest, called, out) ==
    IF rest = {} THEN [rest |-> {}, hit |-> 0, called |-> called, err |-> FALSE]
    ELSE LET i == Min(rest) IN
         IF Skips(i) THEN NextHeart(rest \ {i}, called, out)
         ELSE IF out[i] = "throw"
              THEN LET r == CatchClickError(
                                [rest |-> rest \ {i}, hit |-> 0,
                                 called |-> called \cup {i}, err |-> FALSE])
                   IN IF r.err THEN r ELSE NextHeart(r.rest, r.called, out)
              ELSE [rest |-> rest \ {i}, hit |-> i,
                    called |-> called \cup {i}, err |-> FALSE]

\* A pass p (starting, or woken from its sleep) runs to its next sleep or to its
\* return.  PassSegment is what the loop does, PassAfter the pass afterwards,
\* PassEffects what the run does to the page and to the totals.
PassList(p) == IF p.ph = "sleep" THEN p.rest ELSE UnfilledHearts

PassSegment(p, out) == NextHeart(PassList(p), {}, out)

PassCount(p) == IF p.ph = "sleep" THEN p.n ELSE 0

PassAfter(p, out) ==
    LET r == PassSegment(p, out) IN
    IF r.err THEN [ph |-> "rejected", rest |-> {}, n |-> PassCount(p)]
    ELSE IF r.hit = 0 THEN [ph |-> "ret", rest |-> {}, n |-> PassCount(p)]
    ELSE [ph |-> "sleep", rest |-> r.rest, n |-> PassCount(p) + 1]

\* totalHeartsClicked++ after a click that did not throw.
TotalAfter(r) == IF r.hit # 0 /\ ~r.err THEN totalHeartsClicked + 1 ELSE totalHeartsClicked

PassEffects(p, out) ==
    LET r == PassSegment(p, out) IN
    /\ badClick' = (badClick \/ \E i \in r.called : status[i] # "visible" \/ filled[i])
    /\ totalHeartsClicked' = TotalAfter(r)
    /\ clickSinceReset' = (clickSinceReset \/ r.hit # 0)
    /\ IF r.hit # 0
       THEN /\ filled' = IF out[r.hit] = "fill"
                         THEN [filled EXCEPT ![r.hit] = TRUE] ELSE filled
            /\ clicks' = [clicks EXCEPT ![r.hit] = @ + 1]
       ELSE UNCHANGED <<filled, clicks>>

\* ------------------------------------------------------------ the main routine

\* canStillScroll, for the scroll element.
CanStillScroll == scrollTop + ViewHeight < scrollHeight - ScrollJitter

\* observer.disconnect(), the final report and the return.
Finish ==
    /\ pc' = "done"
    /\ observing' = FALSE
    /\ returned' = totalHeartsClicked
    /\ mainPass' = IdlePass
    /\ aggressiveScrollAttempts' = 0
    /\ scrollCommands' = 0
    /\ actualScrollHappenedInAggressiveLoop' = FALSE

\* The entry of the aggressive scroll loop; obs is the observer's connection as the
\* steps before left it.
BeginAggressive(obs) ==
    /\ pc' = "aggressive"
    /\ mainPass' = IdlePass
    /\ aggressiveScrollAttempts' = 0
    /\ scrollCommands' = 0
    /\ actualScrollHappenedInAggressiveLoop' = FALSE
    /\ observing' = obs
    /\ UNCHANGED returned

\* The while condition.
LoopConditionOffByOne(c) == c < maxScrollsWithoutNewHearts - 1
LoopCondition(c) == c < maxScrollsWithoutNewHearts

\* The while condition and the top of the loop body, with the counter at c.
LoopTest(c, obs) ==
    IF LoopCondition(c)
    THEN IF CanStillScroll
         THEN BeginAggressive(obs)
         ELSE /\ pc' = "bottomScan"
              /\ mainPass' = IdlePass
              /\ aggressiveScrollAttempts' = 0
              /\ scrollCommands' = 0
              /\ actualScrollHappenedInAggressiveLoop' = FALSE
              /\ observing' = obs
              /\ UNCHANGED returned
    ELSE Finish

\* A processVisibleHearts call of the main routine runs to its next sleep or
\* return, on a page whose clicks end as O allows.
MainScanOn(O) ==
    /\ pc \in {"initScan", "bottomScan", "postWait"}
    /\ ScanDue \/ ~ContinuationPending
    /\ mainPass.ph \in {"idle", "sleep"}
    /\ \E out \in [PassList(mainPass) -> O] :
         /\ mainPass' = PassAfter(mainPass, out)
         /\ PassEffects(mainPass, out)
    /\ pc' = IF mainPass'.ph = "rejected" THEN "rejected" ELSE pc
    /\ UNCHANGED <<installer, outliving, progVars, scrollVars, pageVars, cb, returned, staticPage, cycles,
                   cycle>>

MainScan == MainScanOn(Outcomes)

\* The counter after the initial scan clicked n hearts.
CounterAfterInitialScan(n) == IF n > 0 THEN 0 ELSE scrollsWithoutNewHearts

\* After the initial scan.
InitialScanDone ==
    /\ pc = "initScan" /\ mainPass.ph = "ret"
    /\ scrollsWithoutNewHearts' = CounterAfterInitialScan(mainPass.n)
    /\ clickSinceReset' = (clickSinceReset /\ mainPass.n = 0)
    /\ LoopTest(CounterAfterInitialScan(mainPass.n), observing)
    /\ UNCHANGED <<installer, outliving, totalHeartsClicked, processedHeartsInCycle, resolveSet, timerPending,
                   staleTimers, cb, scrollTop, scrollHeight, status, filled,
                   notified, clicks, badClick, cycles, staticPage, cycle>>

\* The counter after the scan of the bottom check clicked n hearts.
CounterAfterBottomCheck(n) ==
    IF n > 0 THEN 0
    ELSE IF ~processedHeartsInCycle THEN scrollsWithoutNewHearts + 1
    ELSE scrollsWithoutNewHearts

\* The break after the bottom check.
BreakAfterBottomCheckAlways(c) == TRUE
BreakAfterBottomCheckNever(c) == FALSE
BreakAfterBottomCheck(c) == c >= maxScrollsWithoutNewHearts

\* After the scan of the bottom check.
BottomScanDone ==
    /\ pc = "bottomScan" /\ mainPass.ph = "ret"
    /\ scrollsWithoutNewHearts' = CounterAfterBottomCheck(mainPass.n)
    /\ clickSinceReset' = (clickSinceReset /\ mainPass.n = 0)
    /\ IF BreakAfterBottomCheck(CounterAfterBottomCheck(mainPass.n))
       THEN Finish ELSE BeginAggressive(observing)
    /\ UNCHANGED <<installer, outliving, totalHeartsClicked, processedHeartsInCycle, resolveSet, timerPending,
                   staleTimers, cb, scrollTop, scrollHeight, status, filled,
                   notified, clicks, badClick, cycles, staticPage, cycle>>

\* ------------------------------------------------------------ growth and wait

\* Where the page may stand after a scroll command and the pause: it did not
\* move, it moved to within the jitter of the bottom, or it moved to the bottom.
MaxScrollTop == IF scrollHeight > ViewHeight THEN scrollHeight - ViewHeight ELSE 0
ScrollResponses ==
    {t \in {scrollTop, MaxScrollTop - ScrollJitter, MaxScrollTop} : t >= scrollTop}

\* The test that the position is effectively unchanged.
UnchangedNoJitter(new, prev) == new <= prev
Unchanged(new, prev) == new <= prev + ScrollJitter

\* The start of the wait: the observer is connected, the promise and its timer made.
\* A timer of an earlier wait that was never cleared stays pending.
StartWait(static) ==
    /\ pc' = "wait"
    /\ processedHeartsInCycle' = FALSE
    /\ observing' = TRUE
    /\ resolveSet' = TRUE
    /\ staleTimers' = IF timerPending THEN staleTimers + 1 ELSE staleTimers
    /\ timerPending' = TRUE
    /\ cycles' = IF static THEN cycles + 1 ELSE 0
    /\ cycle' = IF cycle = "before" THEN "in" ELSE cycle
    /\ scrollCommands' = 0

\* One attempt of the aggressive scroll loop: the scroll command, the pause, the
\* reading of the new position; and on leaving the loop, the start of the wait.
AggressiveScroll ==
    /\ pc = "aggressive"
    /\ ~ContinuationPending
    /\ \E newScrollTop \in ScrollResponses :
         LET same == Unchanged(newScrollTop, scrollTop)
             attempts == IF same THEN aggressiveScrollAttempts + 1 ELSE 0
             atBottom == newScrollTop + ViewHeight >= scrollHeight - ScrollJitter
             static == staticPage /\ newScrollTop = scrollTop
         IN /\ scrollTop' = newScrollTop
            /\ staticPage' = static
            /\ aggressiveScrollAttempts' = attempts
            /\ actualScrollHappenedInAggressiveLoop' =
                   (actualScrollHappenedInAggressiveLoop \/ ~same)
            /\ IF (atBottom /\ same) \/ attempts >= maxAggressiveScrollAttemptsAtBottom
               THEN StartWait(static)
               ELSE /\ scrollCommands' = scrollCommands + 1
                    /\ cycles' = IF static THEN cycles ELSE 0
                    /\ UNCHANGED <<pc, processedHeartsInCycle, observing, resolveSet,
                                   staleTimers, timerPending, cycle>>
    /\ UNCHANGED <<installer, clickSinceReset, outliving, scrollsWithoutNewHearts, totalHeartsClicked, mainPass, cb, scrollHeight,
                   status, filled, notified, clicks, badClick, returned>>

\* The callbacks that have started and not ended.
StartedCallbacks == {k \in Callbacks : cb[k].ph \in {"settle", "sleep", "ret"}}

\* observer.disconnect() after the wait.
DisconnectAfterWaitForgotten == observing
DisconnectAfterWait == FALSE

\* The wait's promise is resolved and the main routine goes on, with
\* processedHeartsInCycle at processed: it disconnects the observer, forgets the
\* resolver, and either resets the counter or starts the explicit re-check.
ResolveWait(processed) ==
    /\ resolveSet' = FALSE
    /\ cycle' = "after"
    /\ IF processed
       THEN /\ scrollsWithoutNewHearts' = 0
            /\ clickSinceReset' = FALSE
            /\ LoopTest(0, DisconnectAfterWait)
       ELSE /\ pc' = "postWait"
            /\ mainPass' = IdlePass
            /\ observing' = DisconnectAfterWait
            /\ aggressiveScrollAttempts' = 0
            /\ scrollCommands' = 0
            /\ actualScrollHappenedInAggressiveLoop' = FALSE
            /\ UNCHANGED <<scrollsWithoutNewHearts, returned, clickSinceReset>>

\* The counter after the explicit re-check clicked n hearts.
CounterAfterWaitCheck(n) == IF n > 0 THEN 0 ELSE scrollsWithoutNewHearts + 1

\* After the explicit re-check that follows a wait.
PostWaitScanDone ==
    /\ pc = "postWait" /\ mainPass.ph = "ret"
    /\ scrollsWithoutNewHearts' = CounterAfterWaitCheck(mainPass.n)
    /\ clickSinceReset' = (clickSinceReset /\ mainPass.n = 0)
    /\ LoopTest(CounterAfterWaitCheck(mainPass.n), observing)
    /\ UNCHANGED <<installer, outliving, totalHeartsClicked, processedHeartsInCycle, resolveSet, timerPending,
                   staleTimers, cb, scrollTop, scrollHeight, status, filled,
                   notified, clicks, badClick, cycles, staticPage, cycle>>

\* A wait timer fires (the oldest pending one first: they all run
\* mutationCheckTimeout) and resolves the wait that is outstanding, if any.
TimerFires ==
    /\ staleTimers > 0 \/ timerPending
    /\ ~ContinuationPending
    /\ IF staleTimers > 0
       THEN staleTimers' = staleTimers - 1 /\ timerPending' = timerPending
       ELSE staleTimers' = staleTimers /\ timerPending' = FALSE
    /\ IF resolveSet
       THEN ResolveWait(processedHeartsInCycle)
       ELSE UNCHANGED <<clickSinceReset, pc, resolveSet, cycle, scrollsWithoutNewHearts, observing,
                        mainPass, returned, aggressiveScrollAttempts, scrollCommands,
                        actualScrollHappenedInAggressiveLoop>>
    /\ outliving' = IF resolveSet THEN StartedCallbacks ELSE outliving
    /\ UNCHANGED <<installer, totalHeartsClicked, processedHeartsInCycle, cb, scrollTop, scrollHeight,
                   status, filled, notified, clicks, badClick, cycles, staticPage>>

\* ------------------------------------------------------------ mutationCallback

\* The settle delay of callback k is over, or its pass wakes: the pass runs to its
\* next sleep or return.
CallbackScanOn(k, O) ==
    /\ cb[k].ph \in {"settle", "sleep"}
    /\ ~ContinuationPending
    /\ \E out \in [PassList(cb[k]) -> O] :
         /\ cb' = [cb EXCEPT ![k] = PassAfter(cb[k], out)]
         /\ PassEffects(cb[k], out)
    /\ UNCHANGED <<installer, outliving, pc, progVars, scrollVars, pageVars, mainPass, returned, staticPage,
                   cycles, cycle>>

CallbackScan(k) == CallbackScanOn(k, Outcomes)

\* The callback's test that a wait is outstanding, before it resolves it.
CallbackNeverResolves == FALSE
CallbackResolves == resolveSet

\* The end of callback k: it records whether it clicked and resolves the wait that
\* is outstanding, if any.
CallbackDone(k) ==
    /\ cb[k].ph = "ret"
    /\ cb' = [cb EXCEPT ![k] = [ph |-> "end", rest |-> {}, n |-> 0]]
    /\ processedHeartsInCycle' = (processedHeartsInCycle \/ cb[k].n > 0)
    /\ IF CallbackResolves
       THEN ResolveWait(processedHeartsInCycle \/ cb[k].n > 0)
       ELSE UNCHANGED <<clickSinceReset, pc, resolveSet, cycle, scrollsWithoutNewHearts, observing,
                        mainPass, returned, aggressiveScrollAttempts, scrollCommands,
                        actualScrollHappenedInAggressiveLoop>>
    /\ outliving' = (IF CallbackResolves THEN StartedCallbacks ELSE outliving) \ {k}
    /\ UNCHANGED <<installer, totalHeartsClicked, timerPending, staleTimers, scrollTop, scrollHeight,
                   status, filled, notified, clicks, badClick, cycles, staticPage>>

\* ------------------------------------------------------------ the host page

\* The page appends item i, visible and unfilled, to its grid, which grows by a
\* page: items come in document order.
RevealItem(i) ==
    /\ status[i] = "absent"
    /\ ~ContinuationPending
    /\ \A j \in Items : j < i => status[j] # "absent"
    /\ status' = [status EXCEPT ![i] = "visible"]
    /\ scrollHeight' = scrollHeight + PageStep
    /\ staticPage' = FALSE
    /\ cycles' = 0
    /\ UNCHANGED <<installer, clickSinceReset, outliving, pc, progVars, aggressiveScrollAttempts, scrollCommands,
                   actualScrollHappenedInAggressiveLoop, scrollTop, mainPass, cb,
                   totalHeartsClicked, filled, notified, clicks, badClick, returned,
                   cycle>>

\* The mutation records of a batch: the record's type and the kinds of the nodes
\* it added.  "#text" is a node that is no element; the others are elements, named
\* by their tag.
NodeKinds == {"#text", "SCRIPT", "STYLE", "LINK", "DIV"}
AddedNodes == {{}} \cup {{n} : n \in NodeKinds} \cup {{"SCRIPT", "DIV"}}
Records ==
    {[type |-> "attributes", added |-> {}]}
        \cup {[type |-> "childList", added |-> a] : a \in AddedNodes}
Batches ==
    {<<r>> : r \in Records}
        \cup {<<[type |-> "attributes", added |-> {}], [type |-> "childList", added |-> {"DIV"}]>>,
               <<[type |-> "childList", added |-> {"STYLE"}],
                 [type |-> "childList", added |-> {"#text"}]>>}

\* relevantMutationDetected, as the loop over the batch computes it.
AnyAddedNode(b) ==
    \E i \in DOMAIN b : b[i].type = "childList" /\ b[i].added # {}
RelevantMutationDetected(b) ==
    \E i \in DOMAIN b :
        /\ b[i].type = "childList" /\ b[i].added # {}
        /\ \E node \in b[i].added :
               node # "#text" /\ node \notin {"SCRIPT", "STYLE", "LINK"}

\* The connected observer is handed batch b, with a qualifying added node: a new
\* callback clears the wait timer (the resolver is set) and starts its settle delay.
NotifyOn(b) ==
    /\ observing
    /\ RelevantMutationDetected(b)
    /\ notified < MaxNotifications
    /\ notified' = notified + 1
    /\ cb' = [cb EXCEPT ![notified + 1] = [ph |-> "settle", rest |-> {}, n |-> 0]]
    /\ timerPending' = IF resolveSet THEN FALSE ELSE timerPending
    /\ staticPage' = FALSE
    /\ cycles' = 0
    /\ UNCHANGED <<installer, clickSinceReset, outliving, pc, scrollsWithoutNewHearts, totalHeartsClicked, processedHeartsInCycle,
                   resolveSet, observing, staleTimers, mainPass, scrollVars, status, filled,
                   clicks, badClick, returned, cycle>>

Notify == \E b \in Batches : NotifyOn(b)

\* The connected observer is handed batch b, without a qualifying added node: the
\* callback returns at once.  The page has changed all the same.
IgnoreOn(b) ==
    /\ observing
    /\ ~RelevantMutationDetected(b)
    /\ staticPage' = FALSE
    /\ cycles' = 0
    /\ UNCHANGED <<installer, clickSinceReset, outliving, pc, progVars, scrollVars, pageVars, mainPass, cb,
                   totalHeartsClicked, filled, clicks, badClick, returned, cycle>>

IgnoredNotify == \E b \in Batches : IgnoreOn(b)

\* The page hides an unfilled item (its offsetParent becomes null) that a sleeping
\* pass holds in its list.  An item hidden at any other time is, to the script, an
\* item that is not there.
HideItem(i) ==
    /\ status[i] = "visible" /\ ~filled[i]
    /\ ~ContinuationPending
    /\ \/ mainPass.ph = "sleep" /\ i \in mainPass.rest
       \/ \E k \in Callbacks : cb[k].ph = "sleep" /\ i \in cb[k].rest
    /\ status' = [status EXCEPT ![i] = "hidden"]
    /\ staticPage' = FALSE
    /\ cycles' = 0
    /\ UNCHANGED <<installer, clickSinceReset, outliving, pc, progVars, scrollVars, mainPass, cb, totalHeartsClicked, filled,
                   notified, clicks, badClick, returned, cycle>>

\* ------------------------------------------------------------ install.ps1

\* The packages, in the order of the Install-Software calls.
Packages ==
    <<"Git.Git", "Microsoft.Powershell", "OpenJS.NodeJS", "Python.Python.3.12",
      "Microsoft.DotNet.SDK.8", "Microsoft.OpenJDK.17", "Docker.DockerDesktop",
      "Microsoft.VisualStudioCode", "Microsoft.VisualStudio.2022.BuildTools",
      "Mozilla.Firefox", "Google.Chrome", "7zip.7zip", "flux.flux",
      "GitHub.GitHubDesktop">>

PackageIndex == 1..Len(Packages)

\* The installer before it runs.
\*   next: the package of the next Install-Software call;
\*   failed: the packages whose winget call ended with a non-zero exit code and
\*           raised no error; raisedAt: the package whose call raised an error;
\*   errorLogged, scriptFailedLogged, allInstalledLogged: the lines written;
\*   exitCode: the exit code of the script, -1 while it runs;
\*   nativeErrorsStop: $PSNativeCommandUseErrorActionPreference is true, so that a
\*           non-zero exit code of a native command raises an error;
\*   getTranscript: a command Get-Transcript exists in the session.
InstallerStart ==
    [pc |-> "notStarted", next |-> 1, failed |-> {}, raisedAt |-> 0,
     errorLogged |-> FALSE, scriptFailedLogged |-> FALSE, allInstalledLogged |-> FALSE,
     exitCode |-> -1, nativeErrorsStop |-> FALSE, getTranscript |-> FALSE]

\* What a winget call does: it ends with exit code 0, it ends with a non-zero exit
\* code, or it cannot be run at all and PowerShell raises an error.
WingetOutcomes == {"ok", "nonZeroExit", "error"}

\* Whether the call raises an error inside the try block of Install-Software.
Raises(outcome) ==
    outcome = "error" \/ (outcome = "nonZeroExit" /\ installer.nativeErrorsStop)

\* The script starts: the preference, the transcript, the first line.
StartInstaller ==
    /\ installer.pc = "notStarted"
    /\ \E stop \in BOOLEAN, gt \in BOOLEAN :
         installer' = [installer EXCEPT !.pc = "installing",
                                        !.nativeErrorsStop = stop,
                                        !.getTranscript = gt]
    /\ UNCHANGED clickHeartsVars

\* One Install-Software call.  An error is logged by the function's catch and
\* thrown again, to the catch of the main script.
InstallSoftware ==
    /\ installer.pc = "installing"
    /\ installer.next \in PackageIndex
    /\ \E outcome \in WingetOutcomes :
         installer' =
             IF Raises(outcome)
             THEN [installer EXCEPT !.pc = "catch", !.raisedAt = installer.next,
                                    !.errorLogged = TRUE, !.next = @ + 1]
             ELSE [installer EXCEPT !.next = @ + 1,
                                    !.failed = IF outcome = "ok" THEN @
                                               ELSE @ \cup {installer.next}]
    /\ UNCHANGED clickHeartsVars

\* The exit code when the script comes to "if (Get-Transcript)" and then to
\* "exit code": without the command the statement raises an error that nothing
\* catches and the script ends with exit code 1.
ExitCodeAt(code) == IF installer.getTranscript THEN code ELSE 1

\* After the last call: the final lines and the exit.
CompleteInstaller ==
    /\ installer.pc = "installing"
    /\ installer.next = Len(Packages) + 1
    /\ installer' = [installer EXCEPT !.pc = "exited", !.allInstalledLogged = TRUE,
                                      !.exitCode = ExitCodeAt(0)]
    /\ UNCHANGED clickHeartsVars

\* The catch of the main script.
CatchInstallerError ==
    /\ installer.pc = "catch"
    /\ installer' = [installer EXCEPT !.pc = "exited", !.scriptFailedLogged = TRUE,
                                      !.exitCode = ExitCodeAt(1)]
    /\ UNCHANGED clickHeartsVars

\* ------------------------------------------------------------ the specification

Init ==
    /\ pc = "initScan"
    /\ scrollsWithoutNewHearts = 0
    /\ totalHeartsClicked = 0
    /\ processedHeartsInCycle = FALSE
    /\ resolveSet = FALSE
    /\ observing = FALSE
    /\ timerPending = FALSE
    /\ staleTimers = 0
    /\ mainPass = IdlePass
    /\ cb = [k \in Callbacks |-> [ph |-> "none", rest |-> {}, n |-> 0]]
    /\ aggressiveScrollAttempts = 0
    /\ actualScrollHappenedInAggressiveLoop = FALSE
    /\ scrollHeight \in {ViewHeight, ViewHeight + PageStep}
    /\ scrollTop \in {0, scrollHeight - ViewHeight}
    /\ \E shown \in 0..NItems :
         status = [i \in Items |-> IF i <= shown THEN "visible" ELSE "absent"]
    /\ filled = [i \in Items |-> FALSE]
    /\ notified = 0
    /\ clicks = [i \in Items |-> 0]
    /\ badClick = FALSE
    /\ cycles = 0
    /\ returned = -1
    /\ staticPage = TRUE
    /\ cycle = "before"
    /\ outliving = {}
    /\ scrollCommands = 0
    /\ clickSinceReset = FALSE
    /\ installer = InstallerStart

Next ==
    \/ MainScan
    \/ InitialScanDone
    \/ BottomScanDone
    \/ AggressiveScroll
    \/ PostWaitScanDone
    \/ TimerFires
    \/ \E k \in Callbacks : CallbackScan(k)
    \/ \E k \in Callbacks : CallbackDone(k)
    \/ \E i \in Items : RevealItem(i)
    \/ Notify
    \/ IgnoredNotify
    \/ \E i \in Items : HideItem(i)

Spec == Init /\ [][Next]_vars

\* The script's own steps are taken when they can be: timers fire, sleeps end, and a
\* continuation that is ready runs.  Nothing is assumed of the page.
Fairness ==
    /\ WF_vars(MainScan)
    /\ WF_vars(InitialScanDone)
    /\ WF_vars(BottomScanDone)
    /\ WF_vars(AggressiveScroll)
    /\ WF_vars(PostWaitScanDone)
    /\ WF_vars(TimerFires)
    /\ \A k \in Callbacks : WF_vars(CallbackScan(k)) /\ WF_vars(CallbackDone(k))

FairSpec == Spec /\ Fairness

\* The two-page scenario: some items are on the page at the start, the others are
\* revealed together during the first wait, every click fills its item and no item
\* is hidden.
RevealSecondPage ==
    /\ pc = "wait" /\ cycle = "in"
    /\ ~ContinuationPending
    /\ \E i \in Items : status[i] = "absent"
    /\ status' = [i \in Items |-> "visible"]
    /\ scrollHeight' = scrollHeight + PageStep
    /\ staticPage' = FALSE
    /\ cycles' = 0
    /\ UNCHANGED <<installer, clickSinceReset, outliving, pc, progVars, aggressiveScrollAttempts, scrollCommands,
                   actualScrollHappenedInAggressiveLoop, scrollTop, mainPass, cb,
                   totalHeartsClicked, filled, notified, clicks, badClick, returned,
                   cycle>>

TwoPageInit ==
    /\ Init
    /\ \E i \in Items : status[i] = "visible"
    /\ \E i \in Items : status[i] = "absent"

TwoPageNext ==
    \/ MainScanOn({"fill"})
    \/ InitialScanDone
    \/ BottomScanDone
    \/ AggressiveScroll
    \/ PostWaitScanDone
    \/ TimerFires
    \/ \E k \in Callbacks : CallbackScanOn(k, {"fill"})
    \/ \E k \in Callbacks : CallbackDone(k)
    \/ RevealSecondPage
    \/ Notify

TwoPageSpec == TwoPageInit /\ [][TwoPageNext]_vars

\* The installer run on its own.
InstallInit ==
    /\ Init
    /\ scrollHeight = ViewHeight /\ scrollTop = 0
    /\ \A i \in Items : status[i] = "absent"

InstallNext ==
    \/ StartInstaller
    \/ InstallSoftware
    \/ CompleteInstaller
    \/ CatchInstallerError

InstallSpec == InstallInit /\ [][InstallNext]_vars


\* ------------------------------------------------------------ the claims

RECURSIVE SumOver(_, _)
SumOver(f, S) == IF S = {} THEN 0 ELSE LET i == Min(S) IN f[i] + SumOver(f, S \ {i})

\* No item has ever been on the page and the page has not moved, grown or notified.
NeverGrew == staticPage /\ \A i \in Items : status[i] = "absent"

\* No item on the page is both visible and unfilled.
NoActionable == \A i \in Items : status[i] = "visible" => filled[i]

\* C1: on a page that never grows, clickAllHearts returns after exactly
\* maxScrollsWithoutNewHearts cycles of one growth attempt and one wait, whether the
\* page reports that it can still scroll or that it is at the bottom.
C1_StaticRunTakesMaxCycles ==
    (pc = "done" /\ NeverGrew) => cycles = maxScrollsWithoutNewHearts

\* C2 as stated: in the two-page scenario a full run clicks every item and returns
\* with the no-progress counter strictly below the threshold.
C2_TwoPagesCounterBelowThreshold ==
    (pc = "done" /\ \A i \in Items : status[i] = "visible")
        => /\ \A i \in Items : filled[i] /\ clicks[i] = 1
           /\ scrollsWithoutNewHearts < maxScrollsWithoutNewHearts

\* C2 as amended: in the two-page scenario a full run clicks every item, each once,
\* and returns with the no-progress counter equal to the threshold.
C2_TwoPagesAllClicked ==
    (pc = "done" /\ \A i \in Items : status[i] = "visible")
        => /\ \A i \in Items : filled[i] /\ clicks[i] = 1
           /\ totalHeartsClicked = NItems
           /\ scrollsWithoutNewHearts = maxScrollsWithoutNewHearts

\* A two-page run has returned: both pages were shown, the second one during the
\* first wait, and a later cycle found nothing more.
C2_Witness ==
    /\ pc = "done"
    /\ \A i \in Items : status[i] = "visible" /\ filled[i]
    /\ cycle = "after"

\* C3: with fair timers the run terminates; every wait and every growth phase on
\* the way has then ended.
C3_Terminates == <>(pc = "done")

\* A run has returned after a wait that a notification handler resolved and after
\* clicking a heart.
C3_Witness == pc = "done" /\ notified > 0 /\ totalHeartsClicked > 0

\* C4: the counter stays within 0..maxScrollsWithoutNewHearts, and it is below the
\* threshold wherever the loop body is running, so that no increment takes it past
\* the threshold.
C4_CounterWithinThreshold ==
    /\ scrollsWithoutNewHearts \in 0..maxScrollsWithoutNewHearts
    /\ pc # "done" => scrollsWithoutNewHearts < maxScrollsWithoutNewHearts

\* The counter stands one below the threshold while the explicit re-check runs.
C4_Witness ==
    /\ pc = "postWait"
    /\ scrollsWithoutNewHearts = maxScrollsWithoutNewHearts - 1

\* The final report's test.
StoppedByThreshold == scrollsWithoutNewHearts >= maxScrollsWithoutNewHearts

\* C5: whenever clickAllHearts has returned the counter equals the threshold, and
\* the final report is the threshold one.
C5_DoneOnlyByThreshold ==
    pc = "done" => /\ scrollsWithoutNewHearts = maxScrollsWithoutNewHearts
                   /\ StoppedByThreshold

\* A run has returned after clicking hearts, so after the counter was reset.
C5_Witness == pc = "done" /\ totalHeartsClicked > 0

\* C6: the total clickAllHearts reports is the number of successful clicks of the
\* run: the total is the sum of the clicks, and no click follows the return.
C6_ReturnedIsTotal ==
    /\ totalHeartsClicked = SumOver(clicks, Items)
    /\ pc = "done" => returned = totalHeartsClicked

\* The hearts a step clicked with success, and the passes that were running.
ClickedInStep == {i \in Items : clicks'[i] > clicks[i]}
MainPassStarts == mainPass.ph = "idle" /\ mainPass'.ph \in {"sleep", "ret", "rejected"}
CallbackPassStarts(k) == cb[k].ph = "settle" /\ cb'[k].ph \in {"sleep", "ret", "rejected"}

\* C7: click() is called only on an item that is visible and not filled at that
\* moment (whether the call then succeeds or throws); every counted click is one
\* of these, and the total counts nothing else.
C7_ClicksOnlyVisibleUnfilled ==
    [][/\ ~badClick'
       /\ \A i \in ClickedInStep : status[i] = "visible" /\ ~filled[i]
       /\ totalHeartsClicked' - totalHeartsClicked = Cardinality(ClickedInStep)
       /\ \A i \in Items : clicks'[i] - clicks[i] \in {0, 1}]_vars

\* A pass has skipped an item that was hidden while it slept, and clicked others:
\* the hidden item is unfilled and unclicked, and no pass is left running.
C7_Witness ==
    /\ \E i \in Items : status[i] = "hidden" /\ ~filled[i] /\ clicks[i] = 0
    /\ totalHeartsClicked > 0
    /\ mainPass.ph # "sleep"
    /\ \A k \in Callbacks : cb[k].ph # "sleep"

\* C8: a pass that starts when the page holds no actionable item returns 0 in that
\* same run and changes nothing: not the total, the counter, the observer's
\* subscription, nor any item; so does the next such pass.
C8_EmptyPassChangesNothing ==
    [][NoActionable =>
          /\ MainPassStarts =>
                 /\ mainPass' = [ph |-> "ret", rest |-> {}, n |-> 0]
                 /\ UNCHANGED <<totalHeartsClicked, scrollsWithoutNewHearts, observing,
                                status, filled, clicks, badClick>>
          /\ \A k \in Callbacks : CallbackPassStarts(k) =>
                 /\ cb'[k] = [ph |-> "ret", rest |-> {}, n |-> 0]
                 /\ UNCHANGED <<totalHeartsClicked, scrollsWithoutNewHearts, observing,
                                status, filled, clicks, badClick>>]_vars

\* The main routine's pass has returned 0 on a page whose only unfilled item is
\* hidden.
C8_Witness ==
    /\ mainPass = [ph |-> "ret", rest |-> {}, n |-> 0]
    /\ NoActionable
    /\ \E i \in Items : status[i] = "hidden" /\ ~filled[i]

\* C9: a click that throws is caught inside the pass: no pass and no caller is
\* ever left by an exception, and the thrown click is not counted, so that the
\* total and the pass counts are those of the clicks that filled an item.
C9_ThrownClickIsSkipped ==
    /\ pc # "rejected"
    /\ mainPass.ph # "rejected"
    /\ \A k \in Callbacks : cb[k].ph # "rejected"
    /\ totalHeartsClicked = Cardinality({i \in Items : filled[i]})
    /\ mainPass.n <= totalHeartsClicked
    /\ \A k \in Callbacks : cb[k].n <= totalHeartsClicked

\* The initial pass went over item 1, whose click threw (it is still visible and
\* unfilled), went on to item 2, clicked it and counted that click alone.
C9_Witness ==
    /\ pc = "initScan" /\ notified = 0
    /\ mainPass.ph = "sleep" /\ mainPass.n = 1
    /\ status[1] = "visible" /\ ~filled[1] /\ clicks[1] = 0
    /\ filled[2]
    /\ totalHeartsClicked = 1

\* C10: the observer is connected exactly while the main routine waits: it is
\* disconnected during every scan and growth phase and after the return, and the
\* wait that connects it holds the resolver.
C10_ObserverOnlyDuringWait ==
    /\ observing <=> pc = "wait"
    /\ observing => resolveSet
    /\ pc = "done" => ~observing

\* A wait was ended by a notification handler and the observer is disconnected
\* while the explicit re-check runs.
C10_Witness == pc = "postWait" /\ ~observing /\ \E k \in Callbacks : cb[k].ph = "end"

\* The passes in progress: a pass is in progress from its start (for a callback,
\* from its settle delay) to its return.
CallbackInProgress(k) == cb[k].ph \in {"settle", "sleep"}
PassesInProgress ==
    (IF mainPass.ph = "sleep" THEN 1 ELSE 0)
        + Cardinality({k \in Callbacks : cb[k].ph = "sleep"})

\* C11: phases never overlap: at most one processVisibleHearts pass is in progress
\* at any time, and a notification's handler is in progress only while the main
\* routine waits: it has finished before the next scan, the next growth attempt
\* and the return.
C11_PhasesNeverOverlap ==
    /\ PassesInProgress <= 1
    /\ (\E k \in Callbacks : CallbackInProgress(k)) => pc = "wait"

\* A step that resolves the wait's promise.
WaitResolves == resolveSet /\ ~resolveSet'

\* C12: a wait ends only by a notification handler that was started during that
\* same wait and has finished its settle delay and its pass, or by that wait's own
\* timer (which no qualifying change has cleared); never by a handler or a timer
\* of an earlier wait.
C12_WaitEndsByItsOwnHandlerOrTimer ==
    [][WaitResolves =>
          \/ \E k \in Callbacks \ outliving : cb[k].ph = "ret" /\ cb'[k].ph = "end"
          \/ staleTimers = 0 /\ timerPending /\ ~timerPending']_vars

\* C13 as stated: the growth attempt and the wait are performed only in iterations
\* where growth is still possible; on a page that has not changed since the script
\* started, the main routine is in its growth attempt or its wait only if the page
\* can still scroll.
C13_GrowthOnlyWhenScrollable ==
    (staticPage /\ pc \in {"aggressive", "wait"}) => CanStillScroll

\* C13 as amended: an iteration starts with the bottom check exactly when growth is
\* not possible; after the one re-scan of the bottom check the routine returns if
\* the counter has reached the threshold and goes on to the growth attempt
\* otherwise; and the wait follows the growth attempt and nothing else.
C13_BottomCheckThenGrowth ==
    [][/\ (pc = "bottomScan" /\ pc' # "bottomScan") =>
              IF scrollsWithoutNewHearts' >= maxScrollsWithoutNewHearts
              THEN pc' = "done" ELSE pc' = "aggressive"
       /\ (pc # "bottomScan" /\ pc' = "bottomScan") => ~CanStillScroll
       /\ (pc \notin {"bottomScan", "aggressive"} /\ pc' = "aggressive") => CanStillScroll
       /\ (pc # "wait" /\ pc' = "wait") => pc = "aggressive"]_vars

\* On a page that cannot scroll the bottom check has counted one unproductive scan
\* and the routine is in the wait that follows the growth attempt.
C13_Witness ==
    /\ pc = "wait" /\ staticPage /\ ~CanStillScroll
    /\ scrollsWithoutNewHearts = 1 /\ cycles = 1

\* C14 as stated: a growth phase issues at most maxAggressiveScrollAttemptsAtBottom
\* scroll commands: while the phase is running, and so is about to issue one more,
\* it has issued fewer than that.
C14_AtMostBudgetScrollCommands ==
    pc = "aggressive" => scrollCommands < maxAggressiveScrollAttemptsAtBottom

\* A step of the growth phase that issues a scroll command, and whether the
\* position it reads after the pause has advanced by more than the jitter.
ScrollCommandStep ==
    pc = "aggressive" /\ (pc' = "wait" \/ scrollCommands' = scrollCommands + 1)
Moved == scrollTop' > scrollTop + ScrollJitter

\* C14 as amended: the budget is of consecutive commands that leave the position
\* effectively unchanged.  A command that moves the position resets the count and
\* records the movement; one that does not adds to the count; the phase ends when
\* the count reaches the budget or a command leaves the position unchanged at the
\* bottom.  A phase without movement issues at most the budget of commands.
C14_BudgetOfUnchangedAttempts ==
    [][/\ pc' = "aggressive" =>
              /\ aggressiveScrollAttempts' < maxAggressiveScrollAttemptsAtBottom
              /\ aggressiveScrollAttempts' <= scrollCommands'
              /\ ~actualScrollHappenedInAggressiveLoop' =>
                     scrollCommands' = aggressiveScrollAttempts'
       /\ ScrollCommandStep =>
              /\ actualScrollHappenedInAggressiveLoop' =
                     (actualScrollHappenedInAggressiveLoop \/ Moved)
              /\ aggressiveScrollAttempts' =
                     IF Moved THEN 0 ELSE aggressiveScrollAttempts + 1
              /\ pc' = "wait" <=>
                     \/ aggressiveScrollAttempts' >= maxAggressiveScrollAttemptsAtBottom
                     \/ ~Moved /\ scrollTop' + ViewHeight >= scrollHeight' - ScrollJitter]_vars

\* A growth phase has issued the budget of commands, one of them moved the
\* position, and the phase is still running.
C14_Witness ==
    /\ pc = "aggressive"
    /\ scrollCommands >= maxAggressiveScrollAttemptsAtBottom
    /\ actualScrollHappenedInAggressiveLoop

\* The steps that end a scan of the main routine, and the step that ends a wait
\* without the explicit re-check.
ScanEnds(at) == pc = at /\ pc' # at
WaitEndsWithReset == pc = "wait" /\ pc' \notin {"wait", "postWait"}

\* C15: the counter is 0 after a scan of the main routine that clicked and after a
\* wait in which an observer-triggered pass was found to have clicked; and once a
\* heart is clicked the counter is reset before it is incremented again: no click
\* is followed by an increment without a reset in between.
C15_CounterResetAfterClicks ==
    [][/\ \A at \in {"initScan", "bottomScan", "postWait"} :
              (ScanEnds(at) /\ mainPass.n > 0) => scrollsWithoutNewHearts' = 0
       /\ WaitEndsWithReset => scrollsWithoutNewHearts' = 0
       /\ scrollsWithoutNewHearts' > scrollsWithoutNewHearts => ~clickSinceReset]_vars

\* A qualifying change: a childList record that adds an element node other than
\* SCRIPT, STYLE or LINK.
QualifyingChange(b) ==
    \E i \in DOMAIN b :
        b[i].type = "childList"
            /\ b[i].added \cap (NodeKinds \ {"#text", "SCRIPT", "STYLE", "LINK"}) # {}

\* C16: a notification whose batch holds no qualifying change has no effect: it
\* does not clear the wait timer, starts no callback pass, does not set
\* processedHeartsInCycle, does not resolve the wait, and leaves the main routine,
\* the counter, the totals and the items as they are.
C16_UnqualifiedBatchHasNoEffect ==
    [][\A b \in Batches :
          (~QualifyingChange(b) /\ (NotifyOn(b) \/ IgnoreOn(b))) =>
              UNCHANGED <<timerPending, staleTimers, cb, notified, processedHeartsInCycle,
                          resolveSet, observing, pc, mainPass, scrollsWithoutNewHearts,
                          totalHeartsClicked, status, filled, clicks>>]_vars

\* The observer was handed a batch without a qualifying change during a wait on a
\* page that has not moved or grown: the wait goes on, its timer still pending and
\* no callback started.
C16_Witness ==
    /\ pc = "wait" /\ resolveSet /\ timerPending /\ notified = 0
    /\ ~staticPage
    /\ scrollTop = 0 /\ scrollHeight = ViewHeight
    /\ \A i \in Items : status[i] = "absent"

\* C17: a click that succeeds marks its item filled in the same step, and no item
\* is clicked with success more than once, however the passes of the callbacks
\* and of the main routine interleave.
C17_NoItemClickedTwice ==
    \A i \in Items : clicks[i] <= 1 /\ (filled[i] <=> clicks[i] = 1)

\* Two passes are asleep between clicks at once, and one of them still holds in
\* its list an item that the other has clicked since.
C17_Witness ==
    \E k \in Callbacks :
        /\ cb[k].ph = "sleep"
        /\ \E i \in cb[k].rest : filled[i] /\ clicks[i] = 1
        /\ \/ mainPass.ph = "sleep"
           \/ \E j \in Callbacks \ {k} : cb[j].ph = "sleep"

\* The packages whose installation failed: by a non-zero exit code or by an error.
FailedPackages ==
    installer.failed \cup (IF installer.raisedAt = 0 THEN {} ELSE {installer.raisedAt})

\* C18: the packages are attempted in the listed order; once the installation of a
\* package has failed no later package is attempted, the failure is logged and the
\* script exits with code 1; "All software installed successfully." is written and
\* exit code 0 returned only if every installation succeeded.
C18_InstallerStopsOnFailure ==
    /\ installer.next \in 1..(Len(Packages) + 1)
    /\ FailedPackages # {} =>
           /\ installer.pc \in {"catch", "exited"}
           /\ installer.next = Min(FailedPackages) + 1
           /\ installer.errorLogged
           /\ installer.pc = "exited" => installer.exitCode = 1
    /\ (installer.allInstalledLogged \/ installer.exitCode = 0) => FailedPackages = {}

====
